---- MODULE Spec2Model ----
(***************************************************************************)
(* The watchlist application (app7/app.py): one relational store with the  *)
(* tables user and movie, one browser session, the command line commands   *)
(* initdb, admin and forge, and the HTTP views index, edit, delete, login, *)
(* logout and settings.  The earlier application app5/app.py (initdb,      *)
(* forge, index) keeps its own store: its data.db lies in its own          *)
(* directory (app.root_path).                                              *)
(*                                                                         *)
(* A nullable value is None (the empty sequence) or Some(v).  A form body  *)
(* is a record: a key the body does not carry is not in its domain.  A     *)
(* model object of the ORM is represented by its primary key.              *)
(***************************************************************************)
EXTENDS Integers, Sequences, FiniteSets, TLC

VARIABLES
    tables,     \* TRUE once db.create_all() has created the tables
    users,      \* the user table: id -> [name, username, password_hash]
    movies,     \* the movie table: id -> [title, year]
    session,    \* the session cookie's _user_id: None or Some(id)
    result,     \* the outcome of the last command or request
    app5        \* the store of app5/app.py: [tables, users, movies]

vars == <<tables, users, movies, session, result, app5>>

----------------------------------------------------------------------------
(* Bounds and program constants *)

MaxMovies == 2

TitleMax == 60
YearMax == 4
NameMax == 20

None == <<>>
Some(v) == <<v>>

----------------------------------------------------------------------------
(* Inputs *)

LongTitle == "aaaaaaaaaaaaaaaaaaaaaaaaaaaaaaaaaaaaaaaaaaaaaaaaaaaaaaaaaaaaa"
LongName == "aaaaaaaaaaaaaaaaaaaaa"

Salts == {"s1", "s2"}
Usernames == {"alice", "bob"}
Passwords == {"", "secret", "hunter2"}

\* the body of a request that carries no field
EmptyForm == [k \in {} |-> ""]

MovieForms ==
    {[title |-> "Inception", year |-> "2010"], [title |-> "New Title", year |-> "1999"],
     [title |-> "", year |-> "2010"], [title |-> LongTitle, year |-> "2010"],
     [title |-> "Inception", year |-> ""], [title |-> "Inception", year |-> "20100"],
     [title |-> "Inception"], [year |-> "2010"], EmptyForm}

LoginForms ==
    {[username |-> u, password |-> p] : u \in Usernames, p \in {"secret", "hunter2"}}
    \cup {[username |-> "", password |-> "secret"], [username |-> "alice", password |-> ""],
          [username |-> "alice"], EmptyForm}

SettingsForms == {[name |-> "Al"], [name |-> ""], [name |-> LongName], EmptyForm}

MovieIds == 1..(MaxMovies + 1)

----------------------------------------------------------------------------
(* The store *)

EmptyTable == [i \in {} |-> None]

Max(S) == CHOOSE m \in S : \A n \in S : n <= m
Min(S) == CHOOSE m \in S : \A n \in S : m <= n

\* an INTEGER PRIMARY KEY of SQLite: one more than the largest id in use
NextId(table) == IF DOMAIN table = {} THEN 1 ELSE Max(DOMAIN table) + 1

Insert(table, row) ==
    [i \in DOMAIN table \cup {NextId(table)} |->
        IF i \in DOMAIN table THEN table[i] ELSE row]

\* mutant: the delete empties the table
Remove_all(table, id) == [i \in {} |-> table[id]]

Remove(table, id) == [i \in DOMAIN table \ {id} |-> table[i]]

\* User.query.first()
first == IF DOMAIN users = {} THEN None ELSE Some(Min(DOMAIN users))

\* Movie.query.all()
RECURSIVE Rows(_)
Rows(ids) ==
    IF ids = {} THEN <<>>
    ELSE <<[id |-> Min(ids), title |-> movies[Min(ids)].title, year |-> movies[Min(ids)].year]>>
         \o Rows(ids \ {Min(ids)})

all == Rows(DOMAIN movies)

----------------------------------------------------------------------------
(* Credentials *)

\* the digest of a salted password: one-way and collision free
Digest(salt, password) == <<salt, password>>

generate_password_hash(password, salt) ==
    [salt |-> salt, hashval |-> Digest(salt, password)]

check_password_hash(pwhash, password) ==
    Digest(pwhash.salt, password) = pwhash.hashval

\* mutant: a stored hash is never overwritten
set_password_once(user, password, salt) ==
    IF user.password_hash # None THEN user
    ELSE [user EXCEPT !.password_hash = Some(generate_password_hash(password, salt))]

set_password(user, password, salt) ==
    [user EXCEPT !.password_hash = Some(generate_password_hash(password, salt))]

\* check_password_hash(None, ...) raises AttributeError
validate_password_raises(user) == user.password_hash = None

validate_password(user, user_pwd) ==
    check_password_hash(user.password_hash[1], user_pwd)

----------------------------------------------------------------------------
(* The session *)

\* mutant: a user object is returned for every id
load_user_any(user_id) == Some(user_id)

load_user(user_id) == IF user_id \in DOMAIN users THEN Some(user_id) ELSE None

\* current_user: the user the cookie names, or None for the anonymous user
current_user == IF session = None THEN None ELSE load_user(session[1])

is_authenticated == current_user # None

login_user(user) == Some(user)

\* mutant: the cookie keeps its _user_id
logout_user_noop == session

logout_user == None

----------------------------------------------------------------------------
(* Outcomes *)

Outcome(view, method, movie_id, status, location, message, body) ==
    [view |-> view, method |-> method, movie_id |-> movie_id, status |-> status,
     location |-> location, flash |-> message, body |-> body]

redirect(view, method, movie_id, location, message) ==
    Outcome(view, method, movie_id, 302, location, message, <<>>)

render_template(view, method, movie_id, status, body) ==
    IF tables THEN Outcome(view, method, movie_id, status, "", "", body)
    ELSE Outcome(view, method, movie_id, 500, "", "", <<>>)

\* an exception no handler catches
InternalServerError(view, method, movie_id) ==
    Outcome(view, method, movie_id, 500, "", "", <<>>)

BadRequest(view, method, movie_id) ==
    Outcome(view, method, movie_id, 400, "", "", <<>>)

\* mutant: the error page is returned without its status code
page_not_found_200(view, method, movie_id) ==
    render_template(view, method, movie_id, 200, <<>>)

page_not_found(view, method, movie_id) ==
    render_template(view, method, movie_id, 404, <<>>)

\* login_manager.unauthorized() with login_view = 'login'
unauthorized(view, method, movie_id) ==
    redirect(view, method, movie_id, "login", "Please log in to access this page.")

Cli(command, status) == Outcome(command, "CLI", 0, status, "", "", <<>>)

----------------------------------------------------------------------------
(* Command line *)

initdb(drop) ==
    /\ UNCHANGED app5
    /\ tables' = TRUE
    /\ users' = IF drop THEN EmptyTable ELSE users
    /\ movies' = IF drop THEN EmptyTable ELSE movies
    /\ result' = Cli("initdb", 0)
    /\ UNCHANGED session

admin(username, password, salt) ==
    /\ UNCHANGED app5
    /\ tables' = TRUE
    /\ users' =
        IF first # None
        THEN [users EXCEPT ![first[1]] =
                set_password([@ EXCEPT !.username = Some(username), !.name = Some(username)],
                             password, salt)]
        ELSE Insert(users,
                set_password([name |-> Some(username), username |-> Some(username),
                              password_hash |-> None], password, salt))
    /\ result' = Cli("admin", 0)
    /\ UNCHANGED <<movies, session>>

\* db.create_all(), then User(name=name) with name defined nowhere (line 57 is
\* a comment): NameError before anything is added to the session
forge ==
    /\ UNCHANGED app5
    /\ tables' = TRUE
    /\ result' = Cli("forge", 1)
    /\ UNCHANGED <<users, movies, session>>

----------------------------------------------------------------------------
(* Views *)

\* mutant: a year of exactly YearMax characters is refused
index_invalid_off_by_one(form) ==
    \/ "title" \notin DOMAIN form
    \/ form.title = ""
    \/ "year" \notin DOMAIN form
    \/ form.year = ""
    \/ Len(form.year) >= YearMax
    \/ Len(form.title) > TitleMax

\* mutant: the length of the year is not checked
index_invalid_no_year_limit(form) ==
    \/ "title" \notin DOMAIN form
    \/ form.title = ""
    \/ "year" \notin DOMAIN form
    \/ form.year = ""
    \/ Len(form.title) > TitleMax

index_invalid(form) ==
    \/ "title" \notin DOMAIN form
    \/ form.title = ""
    \/ "year" \notin DOMAIN form
    \/ form.year = ""
    \/ Len(form.year) > YearMax
    \/ Len(form.title) > TitleMax

\* Movie(title=title, year=year)
Movie(title, year) == [title |-> title, year |-> year]

\* mutant: the POST branch does not look at the session
index_unguarded(method, form) ==
    /\ UNCHANGED app5
    /\ IF method = "POST"
       THEN IF index_invalid(form)
            THEN /\ result' = redirect("index", method, 0, "index", "Invalid input.")
                 /\ UNCHANGED <<tables, users, movies, session>>
            ELSE /\ NextId(movies) <= MaxMovies
                 /\ movies' = Insert(movies, Movie(form.title, form.year))
                 /\ result' = redirect("index", method, 0, "index", "Item created.")
                 /\ UNCHANGED <<tables, users, session>>
       ELSE /\ result' = IF tables THEN render_template("index", method, 0, 200, all)
                         ELSE InternalServerError("index", method, 0)
            /\ UNCHANGED <<tables, users, movies, session>>

index(method, form) ==
    /\ UNCHANGED app5
    /\ IF method = "POST"
       THEN IF ~is_authenticated
            THEN /\ result' = redirect("index", method, 0, "index", "")
                 /\ UNCHANGED <<tables, users, movies, session>>
            ELSE IF index_invalid(form)
            THEN /\ result' = redirect("index", method, 0, "index", "Invalid input.")
                 /\ UNCHANGED <<tables, users, movies, session>>
            ELSE /\ NextId(movies) <= MaxMovies
                 /\ movies' = Insert(movies, Movie(form.title, form.year))
                 /\ result' = redirect("index", method, 0, "index", "Item created.")
                 /\ UNCHANGED <<tables, users, session>>
       ELSE /\ result' = IF tables THEN render_template("index", method, 0, 200, all)
                         ELSE InternalServerError("index", method, 0)
            /\ UNCHANGED <<tables, users, movies, session>>

\* mutant: the length of the title is not checked
edit_invalid_no_title_limit(form) ==
    \/ form.title = ""
    \/ form.year = ""
    \/ Len(form.year) > YearMax

edit_invalid(form) ==
    \/ form.title = ""
    \/ form.year = ""
    \/ Len(form.year) > YearMax
    \/ Len(form.title) > TitleMax

\* mutant: the year is not written
update_title_only(movie, form) == [movie EXCEPT !.title = form.title]

\* movie.title = title; movie.year = year
update(movie, form) == [movie EXCEPT !.title = form.title, !.year = form.year]

edit(method, movie_id, form) ==
    /\ UNCHANGED app5
    /\ IF ~is_authenticated
       THEN /\ result' = unauthorized("edit", method, movie_id)
            /\ UNCHANGED <<tables, users, movies, session>>
       ELSE IF movie_id \notin DOMAIN movies
       THEN /\ result' = page_not_found("edit", method, movie_id)
            /\ UNCHANGED <<tables, users, movies, session>>
       ELSE IF method = "POST"
       THEN IF "title" \notin DOMAIN form \/ "year" \notin DOMAIN form
            THEN /\ result' = BadRequest("edit", method, movie_id)
                 /\ UNCHANGED <<tables, users, movies, session>>
            ELSE IF edit_invalid(form)
            THEN /\ result' = redirect("edit", method, movie_id, "edit", "Invalid input")
                 /\ UNCHANGED <<tables, users, movies, session>>
            ELSE /\ movies' = [movies EXCEPT ![movie_id] = update(@, form)]
                 /\ result' = redirect("edit", method, movie_id, "index", "Item update.")
                 /\ UNCHANGED <<tables, users, session>>
       ELSE /\ result' = render_template("edit", method, movie_id, 200, Rows({movie_id}))
            /\ UNCHANGED <<tables, users, movies, session>>

\* mutant: the record is looked up before the session is checked
delete_late_guard(movie_id) ==
    /\ UNCHANGED app5
    /\ IF tables /\ movie_id \notin DOMAIN movies
       THEN /\ result' = page_not_found("delete", "POST", movie_id)
            /\ UNCHANGED <<tables, users, movies, session>>
       ELSE IF ~is_authenticated
       THEN /\ result' = unauthorized("delete", "POST", movie_id)
            /\ UNCHANGED <<tables, users, movies, session>>
       ELSE /\ movies' = Remove(movies, movie_id)
            /\ result' = redirect("delete", "POST", movie_id, "index", "Item deleted.")
            /\ UNCHANGED <<tables, users, session>>

delete(movie_id) ==
    /\ UNCHANGED app5
    /\ IF ~is_authenticated
       THEN /\ result' = unauthorized("delete", "POST", movie_id)
            /\ UNCHANGED <<tables, users, movies, session>>
       ELSE IF movie_id \notin DOMAIN movies
       THEN /\ result' = page_not_found("delete", "POST", movie_id)
            /\ UNCHANGED <<tables, users, movies, session>>
       ELSE /\ movies' = Remove(movies, movie_id)
            /\ result' = redirect("delete", "POST", movie_id, "index", "Item deleted.")
            /\ UNCHANGED <<tables, users, session>>

\* mutant: the password is not validated
login_username_only(method, form) ==
    /\ UNCHANGED app5
    /\ IF method = "POST"
       THEN IF "username" \notin DOMAIN form \/ "password" \notin DOMAIN form
            THEN /\ result' = BadRequest("login", method, 0)
                 /\ UNCHANGED <<tables, users, movies, session>>
            ELSE IF form.username = "" \/ form.password = ""
            THEN /\ result' = redirect("login", method, 0, "login", "Invalid input.")
                 /\ UNCHANGED <<tables, users, movies, session>>
            ELSE IF ~tables \/ first = None
            THEN /\ result' = InternalServerError("login", method, 0)
                 /\ UNCHANGED <<tables, users, movies, session>>
            ELSE IF Some(form.username) # users[first[1]].username
            THEN /\ result' = redirect("login", method, 0, "login", "Invalid username or password.")
                 /\ UNCHANGED <<tables, users, movies, session>>
            ELSE /\ session' = login_user(first[1])
                 /\ result' = redirect("login", method, 0, "index", "Login success.")
                 /\ UNCHANGED <<tables, users, movies>>
       ELSE /\ result' = render_template("login", method, 0, 200, <<>>)
            /\ UNCHANGED <<tables, users, movies, session>>

\* mutant: a wrong username gets a notification of its own
login_names_unknown_user(method, form) ==
    /\ UNCHANGED app5
    /\ IF method = "POST"
       THEN IF "username" \notin DOMAIN form \/ "password" \notin DOMAIN form
            THEN /\ result' = BadRequest("login", method, 0)
                 /\ UNCHANGED <<tables, users, movies, session>>
            ELSE IF form.username = "" \/ form.password = ""
            THEN /\ result' = redirect("login", method, 0, "login", "Invalid input.")
                 /\ UNCHANGED <<tables, users, movies, session>>
            ELSE IF ~tables \/ first = None
            THEN /\ result' = InternalServerError("login", method, 0)
                 /\ UNCHANGED <<tables, users, movies, session>>
            ELSE IF Some(form.username) # users[first[1]].username
            THEN /\ result' = redirect("login", method, 0, "login", "Unknown user.")
                 /\ UNCHANGED <<tables, users, movies, session>>
            ELSE IF validate_password_raises(users[first[1]])
            THEN /\ result' = InternalServerError("login", method, 0)
                 /\ UNCHANGED <<tables, users, movies, session>>
            ELSE IF validate_password(users[first[1]], form.password)
            THEN /\ session' = login_user(first[1])
                 /\ result' = redirect("login", method, 0, "index", "Login success.")
                 /\ UNCHANGED <<tables, users, movies>>
            ELSE /\ result' = redirect("login", method, 0, "login", "Invalid username or password.")
                 /\ UNCHANGED <<tables, users, movies, session>>
       ELSE /\ result' = render_template("login", method, 0, 200, <<>>)
            /\ UNCHANGED <<tables, users, movies, session>>

\* mutant: a wrong password ends the session
login_failure_logs_out(method, form) ==
    /\ UNCHANGED app5
    /\ IF method = "POST"
       THEN IF "username" \notin DOMAIN form \/ "password" \notin DOMAIN form
            THEN /\ result' = BadRequest("login", method, 0)
                 /\ UNCHANGED <<tables, users, movies, session>>
            ELSE IF form.username = "" \/ form.password = ""
            THEN /\ result' = redirect("login", method, 0, "login", "Invalid input.")
                 /\ UNCHANGED <<tables, users, movies, session>>
            ELSE IF ~tables \/ first = None
            THEN /\ result' = InternalServerError("login", method, 0)
                 /\ UNCHANGED <<tables, users, movies, session>>
            ELSE IF Some(form.username) # users[first[1]].username
            THEN /\ result' = redirect("login", method, 0, "login", "Invalid username or password.")
                 /\ UNCHANGED <<tables, users, movies, session>>
            ELSE IF validate_password_raises(users[first[1]])
            THEN /\ result' = InternalServerError("login", method, 0)
                 /\ UNCHANGED <<tables, users, movies, session>>
            ELSE IF validate_password(users[first[1]], form.password)
            THEN /\ session' = login_user(first[1])
                 /\ result' = redirect("login", method, 0, "index", "Login success.")
                 /\ UNCHANGED <<tables, users, movies>>
            ELSE /\ result' = redirect("login", method, 0, "login", "Invalid username or password.")
                 /\ session' = logout_user
                 /\ UNCHANGED <<tables, users, movies>>
       ELSE /\ result' = render_template("login", method, 0, 200, <<>>)
            /\ UNCHANGED <<tables, users, movies, session>>

login(method, form) ==
    /\ UNCHANGED app5
    /\ IF method = "POST"
       THEN IF "username" \notin DOMAIN form \/ "password" \notin DOMAIN form
            THEN /\ result' = BadRequest("login", method, 0)
                 /\ UNCHANGED <<tables, users, movies, session>>
            ELSE IF form.username = "" \/ form.password = ""
            THEN /\ result' = redirect("login", method, 0, "login", "Invalid input.")
                 /\ UNCHANGED <<tables, users, movies, session>>
            ELSE IF ~tables \/ first = None
            THEN /\ result' = InternalServerError("login", method, 0)
                 /\ UNCHANGED <<tables, users, movies, session>>
            ELSE IF Some(form.username) # users[first[1]].username
            THEN /\ result' = redirect("login", method, 0, "login", "Invalid username or password.")
                 /\ UNCHANGED <<tables, users, movies, session>>
            ELSE IF validate_password_raises(users[first[1]])
            THEN /\ result' = InternalServerError("login", method, 0)
                 /\ UNCHANGED <<tables, users, movies, session>>
            ELSE IF validate_password(users[first[1]], form.password)
            THEN /\ session' = login_user(first[1])
                 /\ result' = redirect("login", method, 0, "index", "Login success.")
                 /\ UNCHANGED <<tables, users, movies>>
            ELSE /\ result' = redirect("login", method, 0, "login", "Invalid username or password.")
                 /\ UNCHANGED <<tables, users, movies, session>>
       ELSE /\ result' = render_template("login", method, 0, 200, <<>>)
            /\ UNCHANGED <<tables, users, movies, session>>

logout ==
    /\ UNCHANGED app5
    /\ IF ~is_authenticated
       THEN /\ result' = unauthorized("logout", "GET", 0)
            /\ UNCHANGED <<tables, users, movies, session>>
       ELSE /\ session' = logout_user
            /\ result' = redirect("logout", "GET", 0, "index", "Goodbye")
            /\ UNCHANGED <<tables, users, movies>>

\* mutant: the length of the name is not checked
settings_invalid_no_limit(form) == form.name = ""

settings_invalid(form) == form.name = "" \/ Len(form.name) > NameMax

\* mutant: the login identifier is overwritten as well
rename_with_username(user, name) ==
    [user EXCEPT !.name = Some(name), !.username = Some(name)]

\* current_user.name = name
rename(user, name) == [user EXCEPT !.name = Some(name)]

settings(method, form) ==
    /\ UNCHANGED app5
    /\ IF ~is_authenticated
       THEN /\ result' = unauthorized("settings", method, 0)
            /\ UNCHANGED <<tables, users, movies, session>>
       ELSE IF method = "POST"
       THEN IF "name" \notin DOMAIN form
            THEN /\ result' = BadRequest("settings", method, 0)
                 /\ UNCHANGED <<tables, users, movies, session>>
            ELSE IF settings_invalid(form)
            THEN /\ result' = redirect("settings", method, 0, "settings", "Invalid input.")
                 /\ UNCHANGED <<tables, users, movies, session>>
            ELSE /\ users' = [users EXCEPT ![current_user[1]] = rename(@, form.name)]
                 /\ result' = redirect("settings", method, 0, "index", "Settings updated.")
                 /\ UNCHANGED <<tables, movies, session>>
       ELSE /\ result' = render_template("settings", method, 0, 200, <<>>)
            /\ UNCHANGED <<tables, users, movies, session>>

----------------------------------------------------------------------------
(* app5/app.py: initdb, forge, index and the 404 page, on its own store *)

MaxForge == 2

\* the list movies of forge
fixtures ==
    <<[title |-> "Dead Poets Society", year |-> "1989"],
      [title |-> "My Neighbor Totoro", year |-> "1988"],
      [title |-> "A Perfect World", year |-> "1993"],
      [title |-> "Leon", year |-> "1994"],
      [title |-> "Mahjong", year |-> "1996"],
      [title |-> "Swallowtail Butterfly", year |-> "1996"],
      [title |-> "King of Comedy", year |-> "1999"],
      [title |-> "Devils on the Doorstep", year |-> "1999"],
      [title |-> "WALL-E", year |-> "2008"],
      [title |-> "The Pork of Music", year |-> "2012"]>>

\* for m in movies: db.session.add(Movie(...))
RECURSIVE InsertAll(_, _)
InsertAll(table, rows) ==
    IF rows = <<>> THEN table
    ELSE InsertAll(Insert(table, Head(rows)), Tail(rows))

\* Movie.query.all() of app5
RECURSIVE Rows5(_)
Rows5(ids) ==
    IF ids = {} THEN <<>>
    ELSE <<[id |-> Min(ids), title |-> app5.movies[Min(ids)].title,
            year |-> app5.movies[Min(ids)].year]>>
         \o Rows5(ids \ {Min(ids)})

initdb5(drop) ==
    /\ app5' = IF drop
               THEN [tables |-> TRUE, users |-> EmptyTable, movies |-> EmptyTable]
               ELSE [app5 EXCEPT !.tables = TRUE]
    /\ result' = Cli("app5:initdb", 0)
    /\ UNCHANGED <<tables, users, movies, session>>

forge5 ==
    /\ Cardinality(DOMAIN app5.users) < MaxForge
    /\ app5' = [tables |-> TRUE,
                users |-> Insert(app5.users, [name |-> Some("Grey Li")]),
                movies |-> InsertAll(app5.movies, fixtures)]
    /\ result' = Cli("app5:forge", 0)
    /\ UNCHANGED <<tables, users, movies, session>>

index5 ==
    /\ result' = IF app5.tables
                 THEN Outcome("app5:index", "GET", 0, 200, "", "", Rows5(DOMAIN app5.movies))
                 ELSE InternalServerError("app5:index", "GET", 0)
    /\ UNCHANGED <<tables, users, movies, session, app5>>

\* any other URL
page_not_found5 ==
    /\ result' = IF app5.tables
                 THEN Outcome("app5:page_not_found", "GET", 0, 404, "", "", <<>>)
                 ELSE InternalServerError("app5:page_not_found", "GET", 0)
    /\ UNCHANGED <<tables, users, movies, session, app5>>

----------------------------------------------------------------------------
(* The specification *)

Init ==
    /\ tables = FALSE
    /\ users = EmptyTable
    /\ movies = EmptyTable
    /\ session = None
    /\ result = Cli("start", 0)
    /\ app5 = [tables |-> FALSE, users |-> EmptyTable, movies |-> EmptyTable]

Next ==
    \/ \E drop \in BOOLEAN : initdb(drop)
    \/ \E username \in Usernames, password \in Passwords, salt \in Salts :
            admin(username, password, salt)
    \/ forge
    \/ index("GET", EmptyForm)
    \/ \E form \in MovieForms : index("POST", form)
    \/ \E movie_id \in MovieIds : edit("GET", movie_id, EmptyForm)
    \/ \E movie_id \in MovieIds, form \in MovieForms : edit("POST", movie_id, form)
    \/ \E movie_id \in MovieIds : delete(movie_id)
    \/ login("GET", EmptyForm)
    \/ \E form \in LoginForms : login("POST", form)
    \/ logout
    \/ settings("GET", EmptyForm)
    \/ \E form \in SettingsForms : settings("POST", form)

Spec == Init /\ [][Next]_vars

Next5 ==
    \/ \E drop \in BOOLEAN : initdb5(drop)
    \/ forge5
    \/ index5
    \/ page_not_found5

\* both applications of the repository
SpecRepo == Init /\ [][Next \/ Next5]_vars

----------------------------------------------------------------------------
(* The methods of User, applied to the stored record *)

Call(name, status, body) == Outcome(name, "CALL", 0, status, "", "", body)

\* user.validate_password(user_pwd): status 1 is the AttributeError
call_validate_password(user_pwd) ==
    /\ first # None
    /\ result' = IF validate_password_raises(users[first[1]])
                 THEN Call("validate_password", 1, <<>>)
                 ELSE Call("validate_password", 0,
                           <<validate_password(users[first[1]], user_pwd)>>)
    /\ UNCHANGED <<tables, users, movies, session, app5>>

\* user.set_password(password)
call_set_password(password, salt) ==
    /\ first # None
    /\ users' = [users EXCEPT ![first[1]] = set_password(@, password, salt)]
    /\ result' = Call("set_password", 0, <<>>)
    /\ UNCHANGED <<tables, movies, session, app5>>

\* the records the constructors make: User(name=name) of forge, without
\* username and hash, and User(username=..., name=...) of admin after its
\* set_password
UserRecords ==
    {[name |-> Some("Grey Li"), username |-> None, password_hash |-> None]}
    \cup {set_password([name |-> Some(u), username |-> Some(u), password_hash |-> None], p, s) :
            u \in Usernames, p \in Passwords, s \in Salts}

InitPassword ==
    /\ tables = TRUE
    /\ users \in {Insert(EmptyTable, u) : u \in UserRecords}
    /\ movies = EmptyTable
    /\ session = None
    /\ result = Cli("start", 0)
    /\ app5 = [tables |-> FALSE, users |-> EmptyTable, movies |-> EmptyTable]

NextPassword ==
    \/ \E user_pwd \in Passwords : call_validate_password(user_pwd)
    \/ \E password \in Passwords, salt \in Salts : call_set_password(password, salt)
    \/ \E form \in LoginForms : login("POST", form)

SpecPassword == InitPassword /\ [][NextPassword]_vars

----------------------------------------------------------------------------
(* The two states of the session, as the claims speak of them *)

Anonymous == session = None \/ session[1] \notin DOMAIN users

Authenticated == ~Anonymous

\* a form body that carries a title and a year within the limits
ValidFields(form) ==
    /\ "title" \in DOMAIN form /\ "year" \in DOMAIN form
    /\ Len(form.title) >= 1 /\ Len(form.title) <= 60
    /\ Len(form.year) >= 1 /\ Len(form.year) <= 4

\* a form body that carries a title and a year, one of them empty or too long
BadFields(form) ==
    /\ "title" \in DOMAIN form /\ "year" \in DOMAIN form
    /\ \/ Len(form.title) = 0 \/ Len(form.title) > 60
       \/ Len(form.year) = 0 \/ Len(form.year) > 4

\* every record of the table before the step is the same after it
Kept(table, table2) == \A i \in DOMAIN table : i \in DOMAIN table2 /\ table2[i] = table[i]

----------------------------------------------------------------------------
(* C1: a request to edit, delete, settings or logout made while the session
   is Anonymous changes no User or Movie record and is answered by a redirect
   to the login view, whatever the movie id and the form body; nothing of the
   handler body (404, 400, validation) shows in the answer. *)
C1_Guard ==
    [][(Anonymous /\ result'.view \in {"edit", "delete", "settings", "logout"})
        => /\ users' = users /\ movies' = movies /\ session' = session
           /\ result'.status = 302 /\ result'.location = "login"
           /\ result'.flash = "Please log in to access this page."]_vars

\* an anonymous delete of an existing record was turned away
C1_Witness ==
    /\ Anonymous
    /\ result.view = "delete" /\ result.location = "login"
    /\ result.movie_id \in DOMAIN movies

(* C2: a POST to / made while the session is Anonymous changes no Movie
   record and is answered by a redirect to the index view; the form body is
   not read, so no validation notification is signalled. *)
C2_AnonymousCreate ==
    [][(Anonymous /\ result'.view = "index" /\ result'.method = "POST")
        => /\ movies' = movies /\ users' = users
           /\ result'.status = 302 /\ result'.location = "index"
           /\ result'.flash = ""]_vars

\* an anonymous POST to / was answered while the store has a user and a movie
C2_Witness ==
    /\ Anonymous /\ DOMAIN users # {} /\ DOMAIN movies # {}
    /\ result.view = "index" /\ result.method = "POST" /\ result.status = 302

----------------------------------------------------------------------------
\* the submitted username and password are those of the stored user
Matches(form) ==
    /\ "username" \in DOMAIN form /\ "password" \in DOMAIN form
    /\ first # None
    /\ users[first[1]].username = Some(form.username)
    /\ users[first[1]].password_hash # None
    /\ validate_password(users[first[1]], form.password)

(* C3 as stated: a login POST moves the session from Anonymous to
   Authenticated if and only if the submitted username equals the stored
   user's username and the submitted password validates against the stored
   hash; on success the session is bound to that user's id. *)
C3_Original ==
    [][\A form \in LoginForms :
        (result'.view = "login" /\ Anonymous /\ login("POST", form))
        => /\ Authenticated' <=> Matches(form)
           /\ Authenticated' => session' = first]_vars

(* C3 amended: a login POST moves the session from Anonymous to Authenticated
   if and only if both submitted fields are nonempty, the submitted username
   equals the stored user's username and the submitted password validates
   against the stored hash; on success the session is bound to that user's
   id, and in every other case the session stays Anonymous. *)
C3_Login ==
    [][\A form \in LoginForms :
        (result'.view = "login" /\ Anonymous /\ login("POST", form))
        => /\ Authenticated' <=>
                (Matches(form) /\ form.username # "" /\ form.password # "")
           /\ Authenticated' => session' = first
           /\ users' = users]_vars

\* a login has succeeded and bound the session to the stored user
C3_Witness ==
    /\ result.view = "login" /\ result.flash = "Login success."
    /\ session = first /\ Authenticated

----------------------------------------------------------------------------
(* C4: logout moves an Authenticated session to Anonymous and the session
   stays without a user until a login succeeds; a delete that follows a
   logout is turned away by the guard and leaves the catalog as it was. *)
C4_Logout ==
    [][/\ (Authenticated /\ result'.view = "logout") => (session' = None /\ Anonymous')
       /\ (session = None /\ session' # None)
            => (result'.view = "login" /\ result'.flash = "Login success.")
       /\ (result.view = "logout" /\ result.location = "index" /\ result'.view = "delete")
            => (result'.location = "login" /\ movies' = movies)]_vars

\* alice/secret exists, the session has logged out, and the delete of the
\* ("Inception", "2010") entry was turned away
C4_Witness ==
    /\ session = None
    /\ first # None /\ users[first[1]].username = Some("alice")
    /\ validate_password(users[first[1]], "secret")
    /\ result.view = "delete" /\ result.location = "login"
    /\ result.movie_id \in DOMAIN movies
    /\ movies[result.movie_id] = [title |-> "Inception", year |-> "2010"]

----------------------------------------------------------------------------
(* C5: for an Authenticated session and a title of 1..60 and a year of 1..4
   characters, a POST to / adds exactly one record, with exactly that title
   and year, leaves every other Movie record unchanged and signals the
   success notification. *)
C5_Create ==
    [][\A form \in MovieForms :
        (result'.view = "index" /\ Authenticated /\ ValidFields(form) /\ index("POST", form))
        => /\ Cardinality(DOMAIN movies') = Cardinality(DOMAIN movies) + 1
           /\ Kept(movies, movies')
           /\ \A i \in DOMAIN movies' \ DOMAIN movies :
                movies'[i] = [title |-> form.title, year |-> form.year]
           /\ result'.flash = "Item created." /\ result'.location = "index"
           /\ users' = users]_vars

\* a create has succeeded next to an existing record
C5_Witness ==
    /\ result.view = "index" /\ result.flash = "Item created."
    /\ Cardinality(DOMAIN movies) >= 2

(* C6: for an Authenticated session, a create or an update of an existing
   record whose title is empty or longer than 60, or whose year is empty or
   longer than 4, changes no Movie record, signals the validation
   notification and redirects to the form it came from. *)
C6_Validation ==
    [][/\ (result'.view = "index" /\ Authenticated)
            => \A form \in MovieForms :
                (BadFields(form) /\ index("POST", form))
                => /\ movies' = movies /\ users' = users
                   /\ result'.status = 302 /\ result'.location = "index"
                   /\ result'.flash = "Invalid input."
       /\ (result'.view = "edit" /\ Authenticated)
            => \A form \in MovieForms, movie_id \in DOMAIN movies :
                (BadFields(form) /\ edit("POST", movie_id, form))
                => /\ movies' = movies /\ users' = users
                   /\ result'.status = 302 /\ result'.location = "edit"
                   /\ result'.movie_id = movie_id
                   /\ result'.flash = "Invalid input"]_vars

\* an update of an existing record has failed validation
C6_Witness ==
    /\ result.view = "edit" /\ result.flash = "Invalid input"
    /\ result.movie_id \in DOMAIN movies /\ Authenticated

(* C7: for an Authenticated session, a GET or POST to edit or a POST to
   delete with an id that names no record is answered with 404 and changes no
   User or Movie record, whatever the form body. *)
C7_NotFound ==
    [][(Authenticated /\ result'.view \in {"edit", "delete"}
            /\ result'.movie_id \notin DOMAIN movies)
        => /\ result'.status = 404
           /\ movies' = movies /\ users' = users /\ session' = session]_vars

\* an edit POST of a missing id was answered 404 while other records exist
C7_Witness ==
    /\ result.view = "edit" /\ result.method = "POST" /\ result.status = 404
    /\ DOMAIN movies # {} /\ Authenticated

----------------------------------------------------------------------------
(* C8: for an Authenticated session, an existing id and a valid title and
   year, an update makes the record of that id exactly that title and year,
   keeps the ids and every other record, and the read of an id (GET of the
   edit page) returns the stored id, title and year. *)
C8_RoundTrip ==
    [][(result'.view = "edit" /\ Authenticated)
        => \A movie_id \in DOMAIN movies :
            /\ \A form \in MovieForms :
                (ValidFields(form) /\ edit("POST", movie_id, form))
                => /\ DOMAIN movies' = DOMAIN movies
                   /\ movies'[movie_id] = [title |-> form.title, year |-> form.year]
                   /\ \A i \in DOMAIN movies \ {movie_id} : movies'[i] = movies[i]
                   /\ result'.flash = "Item update."
            /\ edit("GET", movie_id, EmptyForm)
                => /\ result'.status = 200
                   /\ result'.body = <<[id |-> movie_id, title |-> movies[movie_id].title,
                                        year |-> movies[movie_id].year]>>
                   /\ movies' = movies]_vars

\* the record just updated reads ("New Title", "1999") next to another record
C8_Witness ==
    /\ result.view = "edit" /\ result.method = "POST" /\ result.flash = "Item update."
    /\ Cardinality(DOMAIN movies) >= 2
    /\ movies[result.movie_id] = [title |-> "New Title", year |-> "1999"]
    /\ \E i \in DOMAIN movies : movies[i] # movies[result.movie_id]

----------------------------------------------------------------------------
\* the step is a delete of an existing record by an Authenticated session
Deletes(movie_id) ==
    /\ Authenticated /\ movie_id \in DOMAIN movies
    /\ result'.view = "delete" /\ result'.movie_id = movie_id

\* the last request was a delete that removed a record
Deleted == result.view = "delete" /\ result.flash = "Item deleted."

(* C9 as stated: delete removes the record with that id and only that one,
   and the id names no record from then on: after the next step too an edit
   or delete of that id would find nothing. *)
C9_Original ==
    [][/\ \A movie_id \in MovieIds :
            Deletes(movie_id)
            => /\ DOMAIN movies' = DOMAIN movies \ {movie_id}
               /\ Kept(movies', movies)
       /\ Deleted => result.movie_id \notin DOMAIN movies']_vars

(* C9 amended: delete removes the record with that id and only that one; an
   edit or delete of the same id yields not-found until a later create is
   given that id again (the store hands out the largest id plus one). *)
C9_Delete ==
    [][/\ \A movie_id \in MovieIds :
            Deletes(movie_id)
            => /\ DOMAIN movies' = DOMAIN movies \ {movie_id}
               /\ Kept(movies', movies)
               /\ users' = users
               /\ result'.flash = "Item deleted."
       /\ (Deleted /\ result'.view \in {"edit", "delete"}
                /\ result'.movie_id = result.movie_id)
            => result'.status = 404
       /\ \A movie_id \in MovieIds :
            (movie_id \notin DOMAIN movies /\ movie_id \in DOMAIN movies')
            => (result'.view = "index" /\ result'.flash = "Item created.")]_vars

\* a delete has removed one record and left another
C9_Witness ==
    /\ Deleted /\ result.movie_id \notin DOMAIN movies /\ DOMAIN movies # {}

----------------------------------------------------------------------------
(* C10: after every set_password (the admin command), validate_password
   accepts exactly the plaintext just set; a stored hash changes only through
   set_password; at most one plaintext is valid at a time, and a login
   succeeds only with the plaintext that is valid now. *)
C10_Password ==
    [][/\ \A username \in Usernames, password \in Passwords, salt \in Salts :
            (result'.view = "admin" /\ admin(username, password, salt))
            => /\ first' # None
               /\ \A p \in Passwords :
                    validate_password(users'[first'[1]], p) <=> (p = password)
       /\ \A i \in DOMAIN users :
            (i \in DOMAIN users' /\ users'[i].password_hash # users[i].password_hash)
            => result'.view = "admin"
       /\ \A form \in LoginForms :
            (result'.flash = "Login success." /\ login("POST", form))
            => \A p \in Passwords :
                    validate_password(users[first[1]], p) <=> (p = form.password)]_vars

\* the admin command has replaced the password of an existing user
C10_Witness ==
    /\ result.view = "admin" /\ DOMAIN movies # {} /\ first # None
    /\ validate_password(users[first[1]], "hunter2")
    /\ ~validate_password(users[first[1]], "secret")

----------------------------------------------------------------------------
\* the stored user has no password hash
NoHash == first # None /\ users[first[1]].password_hash = None

\* a login form with a nonempty username and a nonempty password
Filled(form) ==
    /\ "username" \in DOMAIN form /\ "password" \in DOMAIN form
    /\ form.username # "" /\ form.password # ""

(* C11: validate_password on a User record without a stored hash returns
   false for every plaintext and never raises, and a login POST against such
   a user ends as an ordinary authentication failure. *)
C11_NoHash ==
    [][/\ (result'.view = "validate_password" /\ NoHash)
            => (result'.status = 0 /\ result'.body = <<FALSE>>)
       /\ (result'.view = "login" /\ NoHash)
            => \A form \in LoginForms :
                (Filled(form) /\ login("POST", form))
                => /\ result' = redirect("login", "POST", 0, "login",
                                         "Invalid username or password.")
                   /\ session' = session]_vars

(* C12: no operation raises an unhandled error: on an initialized database,
   with or without a User record, a login POST with nonempty username and
   password ends in a redirect to index or to login, and the forge command
   ends by committing its ten fixture movies. *)
C12_NoUnhandledError ==
    [][/\ (tables /\ result'.view = "login")
            => \A form \in LoginForms :
                (Filled(form) /\ login("POST", form))
                => (result'.status = 302 /\ result'.location \in {"index", "login"})
       /\ result'.view = "forge"
            => /\ result'.status = 0
               /\ Cardinality(DOMAIN movies') = Cardinality(DOMAIN movies) + Len(fixtures)]_vars

----------------------------------------------------------------------------
\* a filled login form whose username is not the stored user's
WrongUsername(form) ==
    /\ Filled(form) /\ first # None
    /\ users[first[1]].username # Some(form.username)

\* a filled login form with the stored username and a password that does
\* not validate
WrongPassword(form) ==
    /\ Filled(form) /\ first # None
    /\ users[first[1]].username = Some(form.username)
    /\ users[first[1]].password_hash # None
    /\ ~validate_password(users[first[1]], form.password)

(* C13: a login POST that fails on the username and one that fails on the
   password lead from the same state to the same state: the same response
   (redirect to the login form), the same notification, the same session and
   the same User and Movie records, which are those before the request. *)
C13_Indistinguishable ==
    [][(result'.view = "login" /\ result'.method = "POST")
        => \A f1, f2 \in LoginForms :
            (WrongUsername(f1) /\ WrongPassword(f2))
            => /\ login("POST", f1) <=> login("POST", f2)
               /\ login("POST", f1)
                    => /\ result'.status = 302 /\ result'.location = "login"
                       /\ session' = session /\ users' = users /\ movies' = movies]_vars

\* a login has failed in a state where both kinds of failure can be made
C13_Witness ==
    /\ result.view = "login" /\ result.flash = "Invalid username or password."
    /\ \E f1, f2 \in LoginForms : WrongUsername(f1) /\ WrongPassword(f2)

----------------------------------------------------------------------------
(* C14: for an Authenticated session, a settings POST with a name that is
   empty or longer than 20 characters leaves every user as it was and signals
   the validation notification; with any other name it makes exactly that
   value the name of the user the session is bound to, and changes nothing
   else of any user. *)
C14_Settings ==
    [][(result'.view = "settings" /\ result'.method = "POST" /\ Authenticated)
        => \A form \in SettingsForms :
            ("name" \in DOMAIN form /\ settings("POST", form))
            => IF Len(form.name) = 0 \/ Len(form.name) > 20
               THEN /\ users' = users
                    /\ result'.flash = "Invalid input." /\ result'.location = "settings"
               ELSE /\ DOMAIN users' = DOMAIN users
                    /\ users'[session[1]] =
                            [users[session[1]] EXCEPT !.name = Some(form.name)]
                    /\ \A i \in DOMAIN users \ {session[1]} : users'[i] = users[i]
                    /\ result'.flash = "Settings updated."]_vars

\* the name of the bound user has been set to "Al"
C14_Witness ==
    /\ Authenticated
    /\ result.view = "settings" /\ result.flash = "Settings updated."
    /\ users[session[1]].name = Some("Al")

----------------------------------------------------------------------------
(* C15: in every store of the repository there is at most one User record
   after any sequence of admin commands, forge commands and HTTP requests;
   the admin command creates a user only when none exists and otherwise
   updates the existing one. *)
C15_SingleAdmin ==
    [][/\ Cardinality(DOMAIN users') <= 1
       /\ Cardinality(DOMAIN app5'.users) <= 1
       /\ result'.view = "admin"
            => IF DOMAIN users = {} THEN Cardinality(DOMAIN users') = 1
               ELSE DOMAIN users' = DOMAIN users]_vars

----------------------------------------------------------------------------
\* a Movie record with a title of 1..60 and a year of 1..4 characters
FieldsOk(movie) ==
    /\ Len(movie.title) >= 1 /\ Len(movie.title) <= 60
    /\ Len(movie.year) >= 1 /\ Len(movie.year) <= 4

(* C16: in every state reached from the empty catalog through forge, create,
   update and delete, every Movie record has a title of 1..60 characters and
   a year of 1..4 characters. *)
C16_Fields ==
    /\ \A i \in DOMAIN movies : FieldsOk(movies[i])
    /\ \A i \in DOMAIN app5.movies : FieldsOk(app5.movies[i])

\* forge has seeded its catalog, and a created record has been updated
C16_Witness ==
    /\ DOMAIN app5.movies # {}
    /\ result.view = "edit" /\ result.flash = "Item update."
    /\ Cardinality(DOMAIN movies) >= 2

----------------------------------------------------------------------------
(* C17: an HTTP request never adds or removes a User record and never
   changes a username or a password hash; a name changes only through a
   settings POST of an Authenticated session, and only that of the bound
   user; credentials that log in before the request log in after it. *)
C17_UserFrame ==
    [][(result'.method \in {"GET", "POST"})
        => /\ DOMAIN users' = DOMAIN users
           /\ \A i \in DOMAIN users :
                /\ users'[i].username = users[i].username
                /\ users'[i].password_hash = users[i].password_hash
                /\ users'[i].name # users[i].name
                    => /\ result'.view = "settings" /\ result'.method = "POST"
                       /\ Authenticated /\ session = Some(i)
           /\ \A form \in LoginForms : Matches(form) => Matches(form)']_vars

\* settings has changed the name while alice/secret still matches
C17_Witness ==
    /\ result.view = "settings" /\ result.flash = "Settings updated."
    /\ first # None /\ users[first[1]].name = Some("Al")
    /\ Matches([username |-> "alice", password |-> "secret"])

----------------------------------------------------------------------------
(* C18: the session is bound to the user id only: it stays Authenticated
   when the admin command changes username and password; a protected route
   turns it away exactly when the cookie names no user (after logout) or no
   User record has the named id (after initdb --drop); the cookie loses its
   user only through logout. *)
C18_BoundToId ==
    [][/\ (Authenticated /\ result'.view = "admin")
            => (Authenticated' /\ session' = session)
       /\ result'.view \in {"edit", "delete", "settings", "logout"}
            => ((result'.location = "login")
                    <=> (session = None \/ session[1] \notin DOMAIN users))
       /\ (session # None /\ session' = None) => result'.view = "logout"
       /\ (Authenticated /\ Anonymous')
            => (result'.view = "logout" \/ (result'.view = "initdb" /\ users' = EmptyTable))]_vars

\* after initdb --drop the cookie still names a user and a protected route
\* has turned the session away
C18_Witness ==
    /\ session # None /\ DOMAIN users = {}
    /\ result.view \in {"edit", "delete", "settings", "logout"}
    /\ result.location = "login"

----------------------------------------------------------------------------
(* C19: a login POST that fails leaves the session as it was, Authenticated
   and bound to the same user or Anonymous, and changes no User or Movie
   record. *)
C19_FailedLogin ==
    [][(result'.view = "login" /\ result'.method = "POST"
            /\ result'.flash # "Login success.")
        => (session' = session /\ users' = users /\ movies' = movies)]_vars

\* a login with wrong credentials has failed in an Authenticated session
C19_Witness ==
    /\ Authenticated
    /\ result.view = "login" /\ result.flash = "Invalid username or password."

====
